---- MODULE Spec2Model ----
(***************************************************************************)
(* Model of finalv1.py: the host program that drives a conveyor board over *)
(* a serial link (tare, move to capture, capture image, weigh, move home,  *)
(* log one CSV row per sample).                                            *)
(*                                                                         *)
(* Text is modelled as sequences of one-character strings.  A byte that    *)
(* is not valid UTF-8 is written "#".  Lines sent by the board are taken   *)
(* from the table WireLines; every ser.readline() returns either b"" (the  *)
(* 2 s read timeout) or one line of the table, so the board may send any   *)
(* line at any moment.  Time is counted in whole seconds.                  *)
(***************************************************************************)
EXTENDS Integers, Sequences, FiniteSets, TLC

\* Python None, of the same kind as the numbers it is compared with
None == [none |-> TRUE]

\* -------------------------------------------------------------------------
\* Text helpers (Python str methods used by the program)
\* -------------------------------------------------------------------------
Whitespace == {" ", "\t", "\n", "\r"}

Digits == {"0", "1", "2", "3", "4", "5", "6", "7", "8", "9"}

DigitVal(ch) ==
    CASE ch = "0" -> 0 [] ch = "1" -> 1 [] ch = "2" -> 2 [] ch = "3" -> 3
      [] ch = "4" -> 4 [] ch = "5" -> 5 [] ch = "6" -> 6 [] ch = "7" -> 7
      [] ch = "8" -> 8 [] ch = "9" -> 9

\* s[a..b] (1-based, inclusive), empty when a > b
Slice(s, a, b) == [i \in 1..(b - a + 1) |-> s[a + i - 1]]

\* bytes.decode(errors='ignore'): undecodable bytes are dropped
Decode(bytes) == SelectSeq(bytes, LAMBDA ch : ch # "#")

\* str.strip(): remove leading and trailing whitespace
RECURSIVE LStrip(_)
LStrip(s) ==
    IF s = <<>> THEN s
    ELSE IF Head(s) \in Whitespace THEN LStrip(Tail(s)) ELSE s

RECURSIVE RStrip(_)
RStrip(s) ==
    IF s = <<>> THEN s
    ELSE IF s[Len(s)] \in Whitespace THEN RStrip(Slice(s, 1, Len(s) - 1)) ELSE s

Strip(s) == RStrip(LStrip(s))

\* str.startswith(prefix)
StartsWith(s, prefix) ==
    /\ Len(s) >= Len(prefix)
    /\ Slice(s, 1, Len(prefix)) = prefix

\* str.split(): split on runs of whitespace, no empty parts
RECURSIVE SplitWs(_, _, _)
SplitWs(s, cur, acc) ==
    IF s = <<>> THEN (IF cur = <<>> THEN acc ELSE Append(acc, cur))
    ELSE IF Head(s) \in Whitespace
         THEN SplitWs(Tail(s), <<>>, IF cur = <<>> THEN acc ELSE Append(acc, cur))
         ELSE SplitWs(Tail(s), Append(cur, Head(s)), acc)

Split(s) == SplitWs(s, <<>>, <<>>)

\* p.split("=", 1)[1]: everything after the first "="
RECURSIVE AfterEq(_)
AfterEq(p) ==
    IF p = <<>> THEN <<>>
    ELSE IF Head(p) = "=" THEN Tail(p) ELSE AfterEq(Tail(p))

\* -------------------------------------------------------------------------
\* Numbers.  A float is kept exactly, as sign, integer part and the digits
\* of the fraction without trailing zeros: 12.30 is [neg |-> FALSE,
\* int |-> 12, frac <<3>>].
\* -------------------------------------------------------------------------
RECURSIVE DigitsToNat(_, _)
DigitsToNat(ds, acc) ==
    IF ds = <<>> THEN acc ELSE DigitsToNat(Tail(ds), 10 * acc + DigitVal(Head(ds)))

RECURSIVE DropTrailingZeros(_)
DropTrailingZeros(ds) ==
    IF ds = <<>> THEN ds
    ELSE IF ds[Len(ds)] = "0" THEN DropTrailingZeros(Slice(ds, 1, Len(ds) - 1)) ELSE ds

Num(neg, int, frac) ==
    [neg |-> neg /\ (int # 0 \/ frac # <<>>), int |-> int, frac |-> frac]

\* float(text) for a text made of digits, "." and "-" only; None stands for
\* ValueError
FloatOf(text) ==
    LET neg  == text # <<>> /\ Head(text) = "-"
        body == IF neg THEN Tail(text) ELSE text
        dots == {i \in 1..Len(body) : body[i] = "."}
        dot  == IF dots = {} THEN Len(body) + 1 ELSE CHOOSE i \in dots : TRUE
        ip   == Slice(body, 1, dot - 1)
        fp   == Slice(body, dot + 1, Len(body))
    IN  IF \/ Cardinality(dots) > 1
           \/ \E i \in 1..Len(body) : body[i] = "-"
           \/ Len(ip) + Len(fp) = 0
        THEN None
        ELSE Num(neg, DigitsToNat(ip, 0), DropTrailingZeros(fp))

\* Variant of ExtractNumber that forgets the decimal point
ExtractNumberDropsDot(token) ==
    LET num_chars == SelectSeq(Strip(token), LAMBDA ch : ch \in Digits \cup {"-"})
    IN  IF num_chars = <<>> THEN None ELSE FloatOf(num_chars)

\* _extract_number(token)
ExtractNumber(token) ==
    LET num_chars == SelectSeq(Strip(token), LAMBDA ch : ch \in Digits \cup {".", "-"})
    IN  IF num_chars = <<>> THEN None ELSE FloatOf(num_chars)


\* -------------------------------------------------------------------------
\* String literals of the program
\* -------------------------------------------------------------------------
ZERO_DONE == <<"Z", "E", "R", "O", "_", "D", "O", "N", "E">>

AT_CAPTURE == <<"A", "T", "_", "C", "A", "P", "T", "U", "R", "E">>

AT_HOME == <<"A", "T", "_", "H", "O", "M", "E">>

WEIGH_DONE == <<"W", "E", "I", "G", "H", "_", "D", "O", "N", "E">>

MEASURED == <<"M", "E", "A", "S", "U", "R", "E", "D">>

KeyW == <<"W", "=">>

KeyT == <<"T", "=">>

KeyH == <<"H", "=">>

\* -------------------------------------------------------------------------
\* Lines the board may send, as the bytes ser.readline() returns
\* -------------------------------------------------------------------------
WireLines == <<
    <<"\r", "\n">>,
    <<"A", "T", "_", "C", "A", "P", "T", "U", "R", "E", "\r", "\n">>,
    <<" ", "A", "T", "_", "H", "O", "M", "E", " ", "\n">>,
    <<"Z", "E", "R", "O", "_", "D", "O", "N", "E", "\r", "\n">>,
    <<"W", "E", "I", "G", "H", "_", "D", "O", "N", "E", "\r", "\n">>,
    <<"A", "T", "_", "C", "A", "P", "T", "U", "R", "E", "D", "\r", "\n">>,
    <<"#", "B", "O", "O", "T", " ", "O", "K", "\r", "\n">>,
    <<"M", "E", "A", "S", "U", "R", "E", "D", " ", "W", "=", "1", "2", ".", "3", "g", " ", "T", "=", "2", "5", ".", "0", "C", " ", "H", "=", "4", "0", ".", "1", "%", "\r", "\n">>,
    <<"M", "E", "A", "S", "U", "R", "E", "D", " ", "H", "=", "4", "1", ".", "0", "%", "\n">>,
    <<"M", "E", "A", "S", "U", "R", "E", "D", " ", "W", "=", "a", "b", "c", " ", "T", "=", "1", ".", "2", ".", "3", "C", " ", "H", "=", "-", "%", "\r", "\n">>
>>

NumLines == Len(WireLines)

\* ser.readline().decode(errors='ignore').strip(); index 0 is the read that
\* times out and returns b""
LineText == [i \in 0..NumLines |-> IF i = 0 THEN <<>> ELSE Strip(Decode(WireLines[i]))]

ReadLine(i) == LineText[i]

\* -------------------------------------------------------------------------
\* Configuration and timeouts
\* -------------------------------------------------------------------------
WARMUP_FRAMES == 5

SAVE_RAW == TRUE

SAVE_ENHANCED == TRUE

\* serial.Serial(..., timeout=2): seconds one readline() may block
SERIAL_TIMEOUT == 2

TARE_TIMEOUT == 20

ACK_TIMEOUT == 15

MEASURE_TIMEOUT == 20

\* Bounds of the model
MaxCycles == 2

MaxBoot == 2

\* Seconds a readline() takes: the full timeout when it returns b"",
\* anything up to it when a line arrives
ReadTimes(i) == IF i = 0 THEN {SERIAL_TIMEOUT} ELSE 0..SERIAL_TIMEOUT

\* What the operator may type at the prompt
OperatorInputs == {<<>>, <<"q">>, <<" ", "Q", " ">>, <<"q", "q">>}

Lower(s) == [i \in 1..Len(s) |-> IF s[i] = "Q" THEN "q" ELSE s[i]]

\* -------------------------------------------------------------------------
\* wait_for_arduino
\* -------------------------------------------------------------------------
WaitSites == {"wait_zero", "wait_capture", "wait_home"}

Expected(site) ==
    CASE site = "wait_zero"    -> ZERO_DONE
      [] site = "wait_capture" -> AT_CAPTURE
      [] site = "wait_home"    -> AT_HOME

Timeout(site) ==
    CASE site = "wait_zero"    -> TARE_TIMEOUT
      [] site = "wait_capture" -> ACK_TIMEOUT
      [] site = "wait_home"    -> ACK_TIMEOUT

\* Variant of TimedOut that allows for the read in progress
TimedOutEarly(el, timeout) == el > timeout - SERIAL_TIMEOUT

\* time.time() - start > timeout
TimedOut(el, timeout) == el > timeout

\* Variant of Matches that accepts a line beginning with the token
MatchesPrefix(text, expected_msg) == StartsWith(text, expected_msg)

\* line == expected_msg
Matches(text, expected_msg) == text = expected_msg

\* Variants of AfterWait with a slip in the control flow
AfterWaitHomeTimeoutSkips(site, result) ==
    CASE site = "wait_zero"    -> "init_camera"
      [] site = "wait_capture" -> IF result THEN "capture" ELSE "prompt"
      [] site = "wait_home"    -> IF result THEN "log" ELSE "prompt"

AfterWaitNoSkip(site, result) ==
    CASE site = "wait_zero"    -> "init_camera"
      [] site = "wait_capture" -> "capture"
      [] site = "wait_home"    -> "log"

AfterWaitTareFatal(site, result) ==
    CASE site = "wait_zero"    -> IF result THEN "init_camera" ELSE "done"
      [] site = "wait_capture" -> IF result THEN "capture" ELSE "prompt"
      [] site = "wait_home"    -> "log"

\* where main goes on after wait_for_arduino returned result
AfterWait(site, result) ==
    CASE site = "wait_zero"    -> "init_camera"
      [] site = "wait_capture" -> IF result THEN "capture" ELSE "prompt"
      [] site = "wait_home"    -> "log"

\* -------------------------------------------------------------------------
\* read_measurement
\* -------------------------------------------------------------------------
NoFields == [weight |-> None, temp_c |-> None, hum_pct |-> None]

\* Variant of ParsePart that stores whatever _extract_number returned
ParsePartOverwrites(f, p) ==
    LET val == AfterEq(p)
        n   == ExtractNumber(val)
    IN  IF StartsWith(p, KeyW) THEN [f EXCEPT !.weight = n]
        ELSE IF StartsWith(p, KeyT) THEN [f EXCEPT !.temp_c = n]
        ELSE IF StartsWith(p, KeyH) THEN [f EXCEPT !.hum_pct = n]
        ELSE f

\* one fragment p of a MEASURED line
ParsePart(f, p) ==
    LET val == AfterEq(p)
        n   == ExtractNumber(val)
    IN  IF StartsWith(p, KeyW)
        THEN (IF n # None THEN [f EXCEPT !.weight = n] ELSE f)
        ELSE IF StartsWith(p, KeyT)
        THEN (IF n # None THEN [f EXCEPT !.temp_c = n] ELSE f)
        ELSE IF StartsWith(p, KeyH)
        THEN (IF n # None THEN [f EXCEPT !.hum_pct = n] ELSE f)
        ELSE f

RECURSIVE ParseParts(_, _)
ParseParts(f, parts) ==
    IF parts = <<>> THEN f ELSE ParseParts(ParsePart(f, Strip(Head(parts))), Tail(parts))

\* the body of the read loop for one non-empty line
ParseLine(f, text) ==
    IF StartsWith(text, MEASURED) THEN ParseParts(f, Tail(Split(text))) ELSE f

\* -------------------------------------------------------------------------
\* State
\* -------------------------------------------------------------------------
VARIABLES
    pc,          \* where main is
    ser_open,    \* the serial port is open
    ser_closes,  \* number of ser.close() calls
    in_waiting,  \* lines sent during the settle delay and not read yet
    written,     \* command bytes written to the serial port, in order
    cap_open,    \* the camera is open
    ok,          \* result of the latest wait_for_arduino
    elapsed,     \* time.time() - start in the wait in progress
    fields,      \* weight, temp_c, hum_pct
    got_done,    \* the latest read_measurement ended on WEIGH_DONE
    raw_path,    \* raw_path of the cycle, <<>> for ""
    enh_path,    \* enh_path of the cycle, <<>> for ""
    frames,      \* cap.read() calls in this cycle
    sample_idx,  \* sample counter, 0 before it is assigned
    csv,         \* rows appended to the CSV log in this run
    cycles,      \* loop iterations the operator started
    steps,       \* history: steps of the current loop iteration, in order
    heard,       \* history: what the lines read by read_measurement carry
    acked,       \* history: loop iterations whose AT_CAPTURE arrived in time
    rx,          \* history: index of the line read last (per-function runs)
    flushed,     \* history: lines the startup drain discarded, kept while the tare lasts
    answered,    \* history: terminating tokens read, per command byte
    crop,        \* apply_crop on its own: the frame, the rectangle, the result
    sent         \* read_measurement on one composed line: the line and its values

vars == <<pc, ser_open, ser_closes, in_waiting, written, cap_open, ok, elapsed,
          fields, got_done, raw_path, enh_path, frames, sample_idx, csv, cycles,
          steps, heard, acked, rx, flushed, answered, crop, sent>>

serialVars == <<ser_open, ser_closes, in_waiting, flushed>>

cycleVars == <<fields, got_done, raw_path, enh_path, frames, heard>>

\* the command bytes and the token that ends the exchange of each
Commands == {"Z", "C", "W", "H"}

NoneAnswered == [c \in Commands |-> 0]

\* values of crop and sent outside the runs that use them
NoCrop == [stage |-> "unused"]

NothingSent == [stage |-> "unused"]

\* main before its first statement
NotStarted ==
    /\ pc = "start"
    /\ ser_open = FALSE
    /\ ser_closes = 0
    /\ in_waiting = 0
    /\ written = <<>>
    /\ cap_open = FALSE
    /\ ok = FALSE
    /\ elapsed = 0
    /\ fields = NoFields
    /\ got_done = FALSE
    /\ raw_path = <<>>
    /\ enh_path = <<>>
    /\ frames = 0
    /\ sample_idx = 0
    /\ csv = <<>>
    /\ cycles = 0
    /\ steps = <<>>
    /\ heard = NoFields
    /\ acked = 0
    /\ rx = 0
    /\ flushed = 0
    /\ answered = NoneAnswered

Init ==
    /\ NotStarted
    /\ crop = NoCrop
    /\ sent = NothingSent

\* -------------------------------------------------------------------------
\* What each line of WireLines says, read off the wire protocol by hand (not
\* computed by the parser): its token, and the values it carries.
\* -------------------------------------------------------------------------
Says(tok, w, t, h) == [tok |-> tok, weight |-> w, temp_c |-> t, hum_pct |-> h]

LineMeaning == <<
    Says("", None, None, None),
    Says("AT_CAPTURE", None, None, None),
    Says("AT_HOME", None, None, None),
    Says("ZERO_DONE", None, None, None),
    Says("WEIGH_DONE", None, None, None),
    Says("text", None, None, None),
    Says("text", None, None, None),
    Says("MEASURED", Num(FALSE, 12, <<"3">>), Num(FALSE, 25, <<>>), Num(FALSE, 40, <<"1">>)),
    Says("MEASURED", None, None, Num(FALSE, 41, <<>>)),
    Says("MEASURED", None, None, None)
>>

TokenOf(i) == IF i = 0 THEN "" ELSE LineMeaning[i].tok

ExpectedToken(site) ==
    CASE site = "wait_zero"    -> "ZERO_DONE"
      [] site = "wait_capture" -> "AT_CAPTURE"
      [] site = "wait_home"    -> "AT_HOME"

\* the values heard so far, the later value of a key replacing the earlier
Hear(h, i) ==
    IF i = 0 THEN h
    ELSE LET m == LineMeaning[i]
         IN  [weight  |-> IF m.weight # None THEN m.weight ELSE h.weight,
              temp_c  |-> IF m.temp_c # None THEN m.temp_c ELSE h.temp_c,
              hum_pct |-> IF m.hum_pct # None THEN m.hum_pct ELSE h.hum_pct]

\* -------------------------------------------------------------------------
\* main: startup
\* -------------------------------------------------------------------------
\* init_serial: open the port, sleep 2 s; lines sent meanwhile are buffered
InitSerial ==
    /\ pc = "start"
    /\ \E n \in 0..MaxBoot :
        /\ ser_open' = TRUE
        /\ in_waiting' = n
        /\ pc' = "drain"
    /\ UNCHANGED <<ser_closes, flushed, written, cap_open, ok, elapsed, cycleVars,
                   sample_idx, csv, cycles, steps, acked, rx, answered, crop, sent>>

\* init_serial: while ser.in_waiting: readline() and discard
DrainLine ==
    /\ pc = "drain"
    /\ in_waiting > 0
    /\ in_waiting' = in_waiting - 1
    /\ flushed' = flushed + 1
    /\ UNCHANGED <<pc, ser_open, ser_closes, written, cap_open, ok, elapsed,
                   cycleVars, sample_idx, csv, cycles, steps, acked, rx, answered, crop, sent>>

\* Variant of DrainDone that leaves the loop while lines are still buffered
DrainDoneEarly ==
    /\ pc = "drain"
    /\ pc' = "tare"
    /\ UNCHANGED <<serialVars, written, cap_open, ok, elapsed, cycleVars,
                   sample_idx, csv, cycles, steps, acked, rx, answered, crop, sent>>

\* init_serial: ser.in_waiting is 0, the loop ends and ser is returned
DrainDone ==
    /\ pc = "drain"
    /\ in_waiting = 0
    /\ pc' = "tare"
    /\ UNCHANGED <<serialVars, written, cap_open, ok, elapsed, cycleVars,
                   sample_idx, csv, cycles, steps, acked, rx, answered, crop, sent>>

\* ser.write(b'Z'); time.sleep(0.5); enter wait_for_arduino(ser, "ZERO_DONE", 20)
Tare ==
    /\ pc = "tare"
    /\ written' = Append(written, "Z")
    /\ elapsed' = 0
    /\ pc' = "wait_zero"
    /\ UNCHANGED <<serialVars, cap_open, ok, cycleVars, sample_idx, csv, cycles,
                   steps, acked, rx, answered, crop, sent>>

\* history of the steps of a loop iteration
StepOfWait(site, result) ==
    CASE site = "wait_zero"    -> <<>>
      [] site = "wait_capture" -> IF result THEN <<"AT_CAPTURE">> ELSE <<"no AT_CAPTURE">>
      [] site = "wait_home"    -> <<"wait AT_HOME">>

\* wait_for_arduino returns result to main
WaitReturns(site, result) ==
    /\ ok' = result
    /\ elapsed' = 0
    /\ pc' = AfterWait(site, result)
    /\ steps' = steps \o StepOfWait(site, result)
    /\ acked' = IF site = "wait_capture" /\ result THEN acked + 1 ELSE acked

\* one turn of the loop of wait_for_arduino that reads a line
WaitTurn(site, i, d) ==
    /\ pc = site
    /\ ~TimedOut(elapsed, Timeout(site))
    /\ d \in ReadTimes(i)
    /\ IF Matches(ReadLine(i), Expected(site))
       THEN WaitReturns(site, TRUE)
       ELSE /\ elapsed' = elapsed + d
            /\ UNCHANGED <<pc, ok, steps, acked>>
    /\ UNCHANGED <<serialVars, written, cap_open, cycleVars, sample_idx, csv,
                   cycles>>

WaitRead(site) ==
    /\ \E i \in 0..NumLines, d \in 0..SERIAL_TIMEOUT : WaitTurn(site, i, d)
    /\ UNCHANGED <<rx, answered, crop, sent>>

\* Variant of WaitTimeout that starts the wait over instead of returning
WaitTimeoutRestarts(site) ==
    /\ pc = site
    /\ TimedOut(elapsed, Timeout(site))
    /\ elapsed' = 0
    /\ UNCHANGED <<pc, ok, steps, acked, serialVars, written, cap_open, cycleVars,
                   sample_idx, csv, cycles, rx, answered, crop, sent>>

\* the turn that finds the timeout passed
WaitTimeout(site) ==
    /\ pc = site
    /\ TimedOut(elapsed, Timeout(site))
    /\ WaitReturns(site, FALSE)
    /\ UNCHANGED <<serialVars, written, cap_open, cycleVars, sample_idx, csv,
                   cycles, rx, answered, crop, sent>>

\* init_camera; on failure ser.close() and return
InitCamera ==
    /\ pc = "init_camera"
    /\ \E opened \in BOOLEAN :
        IF opened
        THEN /\ cap_open' = TRUE
             /\ sample_idx' = 1
             /\ pc' = "prompt"
             /\ UNCHANGED <<ser_open, ser_closes>>
        ELSE /\ ser_open' = FALSE
             /\ ser_closes' = ser_closes + 1
             /\ pc' = "done"
             /\ UNCHANGED <<cap_open, sample_idx>>
    /\ flushed' = 0
    /\ UNCHANGED <<in_waiting, written, ok, elapsed, cycleVars, csv, cycles,
                   steps, acked, rx, answered, crop, sent>>

\* -------------------------------------------------------------------------
\* main: the cycle loop
\* -------------------------------------------------------------------------
\* input(...).strip().lower()
UserIn(typed) == Lower(Strip(typed))

\* the operator types q: break, then cap.release(), ser.close()
Quit ==
    /\ pc = "prompt"
    /\ \E typed \in OperatorInputs : UserIn(typed) = <<"q">>
    /\ cap_open' = FALSE
    /\ ser_open' = FALSE
    /\ ser_closes' = ser_closes + 1
    /\ pc' = "done"
    /\ UNCHANGED <<in_waiting, flushed, written, ok, elapsed, cycleVars, sample_idx, csv,
                   cycles, steps, acked, rx, answered, crop, sent>>

\* anything else: ser.write(b'C'), enter wait_for_arduino(ser, "AT_CAPTURE", 15)
RunCycle ==
    /\ pc = "prompt"
    /\ cycles < MaxCycles
    /\ \E typed \in OperatorInputs : UserIn(typed) # <<"q">>
    /\ cycles' = cycles + 1
    /\ written' = Append(written, "C")
    /\ steps' = <<"C">>
    /\ frames' = 0
    /\ elapsed' = 0
    /\ pc' = "wait_capture"
    /\ UNCHANGED <<serialVars, cap_open, ok, fields, got_done, raw_path, enh_path,
                   heard, sample_idx, csv, acked, rx, answered, crop, sent>>

\* the path of a saved image: directory and sample number (the timestamp is
\* left out)
PathOf(dir, idx) == <<dir, idx>>

\* Variant of Capture that skips the cycle when the frame read fails
CaptureFailSkips ==
    /\ pc = "capture"
    /\ \E ret \in BOOLEAN :
        /\ raw_path' = IF ret /\ SAVE_RAW THEN PathOf("raw_images", sample_idx) ELSE <<>>
        /\ enh_path' = IF ret /\ SAVE_ENHANCED THEN PathOf("enhanced_images", sample_idx) ELSE <<>>
        /\ pc' = IF ret THEN "weigh" ELSE "prompt"
    /\ frames' = frames + WARMUP_FRAMES + 1
    /\ steps' = Append(steps, "frames")
    /\ UNCHANGED <<serialVars, written, cap_open, ok, elapsed, fields, got_done,
                   heard, sample_idx, csv, cycles, acked, rx, answered, crop, sent>>

\* sleep, discard WARMUP_FRAMES frames, read the frame, crop, save, show
Capture ==

    /\ pc = "capture"
    /\ \E ret \in BOOLEAN :
        /\ raw_path' = IF ret /\ SAVE_RAW THEN PathOf("raw_images", sample_idx) ELSE <<>>
        /\ enh_path' = IF ret /\ SAVE_ENHANCED THEN PathOf("enhanced_images", sample_idx) ELSE <<>>
    /\ frames' = frames + WARMUP_FRAMES + 1
    /\ steps' = Append(steps, "frames")
    /\ pc' = "weigh"
    /\ UNCHANGED <<serialVars, written, cap_open, ok, elapsed, fields, got_done,
                   heard, sample_idx, csv, cycles, acked, rx, answered, crop, sent>>

\* ser.write(b'W'), enter read_measurement(ser, 20)
MoveToWeigh ==
    /\ pc = "weigh"
    /\ written' = Append(written, "W")
    /\ steps' = Append(steps, "W")
    /\ fields' = NoFields
    /\ heard' = NoFields
    /\ got_done' = FALSE
    /\ elapsed' = 0
    /\ pc' = "measure"
    /\ UNCHANGED <<serialVars, cap_open, ok, raw_path, enh_path, frames,
                   sample_idx, csv, cycles, acked, rx, answered, crop, sent>>

\* one turn of the loop of read_measurement that reads a line
MeasureTurn(i, d) ==
    /\ pc = "measure"
    /\ ~TimedOut(elapsed, MEASURE_TIMEOUT)
    /\ d \in ReadTimes(i)
    /\ heard' = Hear(heard, i)
    /\ LET text == ReadLine(i)
       IN  IF text = <<>>
           THEN /\ elapsed' = elapsed + d
                /\ UNCHANGED <<pc, fields, got_done, steps>>
           ELSE /\ fields' = ParseLine(fields, text)
                /\ IF text = WEIGH_DONE
                   THEN /\ got_done' = TRUE
                        /\ elapsed' = 0
                        /\ steps' = Append(steps, "measure")
                        /\ pc' = "home"
                   ELSE /\ elapsed' = elapsed + d
                        /\ UNCHANGED <<pc, got_done, steps>>
    /\ UNCHANGED <<serialVars, written, cap_open, ok, raw_path, enh_path, frames,
                   sample_idx, csv, cycles, acked>>

MeasureRead ==
    /\ \E i \in 0..NumLines, d \in 0..SERIAL_TIMEOUT : MeasureTurn(i, d)
    /\ UNCHANGED <<rx, answered, crop, sent>>

\* Variant of MeasureTimeout that returns what was parsed so far
MeasureTimeoutKeepsFields ==
    /\ pc = "measure"
    /\ TimedOut(elapsed, MEASURE_TIMEOUT)
    /\ elapsed' = 0
    /\ steps' = Append(steps, "measure")
    /\ pc' = "home"
    /\ UNCHANGED <<serialVars, written, cap_open, ok, cycleVars, sample_idx, csv,
                   cycles, acked, rx, answered, crop, sent>>

\* the turn that finds the timeout passed: return None, None, None
MeasureTimeout ==
    /\ pc = "measure"
    /\ TimedOut(elapsed, MEASURE_TIMEOUT)
    /\ fields' = NoFields
    /\ elapsed' = 0
    /\ steps' = Append(steps, "measure")
    /\ pc' = "home"
    /\ UNCHANGED <<serialVars, written, cap_open, ok, got_done, raw_path, enh_path,
                   frames, heard, sample_idx, csv, cycles, acked, rx, answered, crop, sent>>

\* ser.write(b'H'), enter wait_for_arduino(ser, "AT_HOME", 15)
MoveHome ==
    /\ pc = "home"
    /\ written' = Append(written, "H")
    /\ steps' = Append(steps, "H")
    /\ elapsed' = 0
    /\ pc' = "wait_home"
    /\ UNCHANGED <<serialVars, cap_open, ok, cycleVars, sample_idx, csv, cycles, acked, rx, answered, crop, sent>>

Row == [sample_idx |-> sample_idx, raw_path |-> raw_path, enh_path |-> enh_path,
        weight_g |-> fields.weight, temp_c |-> fields.temp_c,
        humidity_pct |-> fields.hum_pct]

\* Variant of LogRow that forgets sample_idx += 1
LogRowKeepsIndex ==
    /\ pc = "log"
    /\ csv' = Append(csv, Row)
    /\ steps' = Append(steps, "record")
    /\ fields' = NoFields
    /\ heard' = NoFields
    /\ got_done' = FALSE
    /\ raw_path' = <<>>
    /\ enh_path' = <<>>
    /\ pc' = "prompt"
    /\ UNCHANGED <<serialVars, written, cap_open, ok, elapsed, frames, sample_idx,
                   cycles, acked, rx, answered, crop, sent>>

\* append the row to the CSV log, sample_idx += 1; the values of the cycle
\* are not read again before they are assigned anew
LogRow ==
    /\ pc = "log"
    /\ csv' = Append(csv, Row)
    /\ sample_idx' = sample_idx + 1
    /\ steps' = Append(steps, "record")
    /\ fields' = NoFields
    /\ heard' = NoFields
    /\ got_done' = FALSE
    /\ raw_path' = <<>>
    /\ enh_path' = <<>>
    /\ pc' = "prompt"
    /\ UNCHANGED <<serialVars, written, cap_open, ok, elapsed, frames, cycles, acked, rx, answered, crop, sent>>

Next ==
    \/ InitSerial
    \/ DrainLine
    \/ DrainDone
    \/ Tare
    \/ WaitRead("wait_zero")
    \/ WaitTimeout("wait_zero")
    \/ InitCamera
    \/ Quit
    \/ RunCycle
    \/ WaitRead("wait_capture")
    \/ WaitTimeout("wait_capture")
    \/ Capture
    \/ MoveToWeigh
    \/ MeasureRead
    \/ MeasureTimeout
    \/ MoveHome
    \/ WaitRead("wait_home")
    \/ WaitTimeout("wait_home")
    \/ LogRow

Spec == Init /\ [][Next]_vars

\* -------------------------------------------------------------------------
\* main as a running process.  The interpreter runs the next statement
\* whenever that statement does not block on the operator, and the clock of
\* time.time() advances: of the reads a loop makes, some take a second.

ProgramStep ==
    \/ InitSerial
    \/ DrainLine
    \/ DrainDone
    \/ Tare
    \/ \E site \in WaitSites : WaitTimeout(site)
    \/ InitCamera
    \/ Capture
    \/ MoveToWeigh
    \/ MeasureTimeout
    \/ MoveHome
    \/ LogRow

ClockRead ==
    /\ \E i \in 0..NumLines, d \in 1..SERIAL_TIMEOUT :
          \/ \E site \in WaitSites : WaitTurn(site, i, d)
          \/ MeasureTurn(i, d)
    /\ UNCHANGED <<rx, answered, crop, sent>>

SpecLive == Spec /\ WF_vars(ProgramStep) /\ WF_vars(ClockRead)

\* -------------------------------------------------------------------------
\* main with a serial port that can fail.  ser.in_waiting, ser.readline()
\* and ser.write() raise on an I/O error; no statement of the file catches
\* the exception (the try of read_measurement encloses the parsing only),
\* so it leaves main and ends the process with the statements after the
\* raising call not run.

SerialCalls == {"drain", "tare", "wait_zero", "prompt", "wait_capture", "weigh",
                "measure", "home", "wait_home"}

SerialError ==
    /\ pc \in SerialCalls
    /\ pc' = "crashed"
    /\ UNCHANGED <<serialVars, written, cap_open, ok, elapsed, cycleVars,
                   sample_idx, csv, cycles, steps, acked, rx, answered, crop, sent>>

NextIO ==
    \/ Next
    \/ SerialError

SpecIO == Init /\ [][NextIO]_vars

\* -------------------------------------------------------------------------
\* main with a device that answers.  The device ends the work a command
\* byte starts by sending the token main waits for after that byte, once per
\* byte received and in the order of the bytes, after a delay of its own
\* choosing; every other line it sends when it likes.  A line is taken as
\* sent when a read returns it.  answered counts the tokens per command.

Terminator(c) ==
    CASE c = "Z" -> "ZERO_DONE"
      [] c = "C" -> "AT_CAPTURE"
      [] c = "W" -> "WEIGH_DONE"
      [] c = "H" -> "AT_HOME"

CommandOf(site) ==
    CASE site = "wait_zero"    -> "Z"
      [] site = "wait_capture" -> "C"
      [] site = "measure"      -> "W"
      [] site = "wait_home"    -> "H"

WrittenTimes(c) == Cardinality({k \in 1..Len(written) : written[k] = c})

Outstanding(c) == WrittenTimes(c) - answered[c]

\* the commands line i is the terminating token of
Ends(i) == {c \in Commands : TokenOf(i) = Terminator(c)}

DeviceCanSend(i) == \A c \in Ends(i) : Outstanding(c) > 0

Answer(i) == [c \in Commands |-> IF c \in Ends(i) THEN answered[c] + 1
                                                  ELSE answered[c]]

WaitReadDev(site) ==
    \E i \in 0..NumLines, d \in 0..SERIAL_TIMEOUT :
        /\ DeviceCanSend(i)
        /\ WaitTurn(site, i, d)
        /\ answered' = Answer(i)
        /\ UNCHANGED <<rx, crop, sent>>

MeasureReadDev ==
    \E i \in 0..NumLines, d \in 0..SERIAL_TIMEOUT :
        /\ DeviceCanSend(i)
        /\ MeasureTurn(i, d)
        /\ answered' = Answer(i)
        /\ UNCHANGED <<rx, crop, sent>>

NextDev ==
    \/ InitSerial
    \/ DrainLine
    \/ DrainDone
    \/ Tare
    \/ WaitReadDev("wait_zero")
    \/ WaitTimeout("wait_zero")
    \/ InitCamera
    \/ Quit
    \/ RunCycle
    \/ WaitReadDev("wait_capture")
    \/ WaitTimeout("wait_capture")
    \/ Capture
    \/ MoveToWeigh
    \/ MeasureReadDev
    \/ MeasureTimeout
    \/ MoveHome
    \/ WaitReadDev("wait_home")
    \/ WaitTimeout("wait_home")
    \/ LogRow

SpecDev == Init /\ [][NextDev]_vars

\* -------------------------------------------------------------------------
\* apply_crop on its own.  A frame is its height and width (img.shape[:2]);
\* the result is the range of rows y..y2-1 and of columns x..x2-1 of the
\* frame that the returned array holds, the frame itself being all its rows
\* and columns.  The rectangle and the switch are the module's settings
\* ENABLE_CROP, CROP_X, CROP_Y, CROP_W, CROP_H, taken from bounded sets.

MaxFrame == 3

Max(a, b) == IF a >= b THEN a ELSE b

Min(a, b) == IF a <= b THEN a ELSE b

WholeFrame(img) == [y |-> 0, y2 |-> img.h, x |-> 0, x2 |-> img.w]

apply_crop(img, cfg) ==
    IF ~cfg.ENABLE_CROP THEN WholeFrame(img)
    ELSE LET h  == img.h
             w  == img.w
             x  == Max(0, cfg.CROP_X)
             y  == Max(0, cfg.CROP_Y)
             x2 == Min(w, x + cfg.CROP_W)
             y2 == Min(h, y + cfg.CROP_H)
         IN  IF x2 <= x \/ y2 <= y
             THEN WholeFrame(img)
             ELSE [y |-> y, y2 |-> y2, x |-> x, x2 |-> x2]

Frames == [h : 1..MaxFrame, w : 1..MaxFrame]

CropSettings == [ENABLE_CROP : BOOLEAN,
                 CROP_X : (0 - MaxFrame)..(MaxFrame + 1),
                 CROP_Y : (0 - MaxFrame)..(MaxFrame + 1),
                 CROP_W : 0..(MaxFrame + 1),
                 CROP_H : 0..(MaxFrame + 1)]

InitCrop ==
    /\ NotStarted
    /\ sent = NothingSent
    /\ \E img \in Frames, cfg \in CropSettings :
          crop = [stage |-> "call", img |-> img, cfg |-> cfg]

CropReturns ==
    /\ crop.stage = "call"
    /\ crop' = [stage |-> "returned", img |-> crop.img, cfg |-> crop.cfg,
                out |-> apply_crop(crop.img, crop.cfg)]
    /\ UNCHANGED <<pc, serialVars, written, cap_open, ok, elapsed, cycleVars,
                   sample_idx, csv, cycles, steps, acked, rx, answered, sent>>

NextCrop == CropReturns

SpecCrop == InitCrop /\ [][NextCrop]_vars

\* -------------------------------------------------------------------------
\* wait_for_arduino and read_measurement on their own: main is taken at a
\* call of the function, and the line each turn reads is kept in rx.
\* -------------------------------------------------------------------------
\* main at a call of the function, the frame and the values named apart
InCall(site) ==
    /\ pc = site
    /\ ser_open = TRUE
    /\ ser_closes = 0
    /\ in_waiting = 0
    /\ cap_open = (site # "wait_zero")
    /\ ok = (site \in {"wait_home", "measure"})
    /\ elapsed = 0
    /\ fields = NoFields
    /\ got_done = FALSE
    /\ raw_path = <<>>
    /\ enh_path = <<>>
    /\ frames = IF site \in {"wait_home", "measure"} THEN WARMUP_FRAMES + 1 ELSE 0
    /\ sample_idx = IF site = "wait_zero" THEN 0 ELSE 1
    /\ csv = <<>>
    /\ cycles = IF site = "wait_zero" THEN 0 ELSE 1
    /\ acked = IF site \in {"wait_home", "measure"} THEN 1 ELSE 0
    /\ heard = NoFields
    /\ rx = 0
    /\ flushed = 0
    /\ answered = NoneAnswered
    /\ written = CASE site = "wait_zero"    -> <<"Z">>
                   [] site = "wait_capture" -> <<"Z", "C">>
                   [] site = "measure"      -> <<"Z", "C", "W">>
                   [] site = "wait_home"    -> <<"Z", "C", "W", "H">>
    /\ steps = CASE site = "wait_zero"    -> <<>>
                 [] site = "wait_capture" -> <<"C">>
                 [] site = "measure"      -> <<"C", "AT_CAPTURE", "frames", "W">>
                 [] site = "wait_home"    -> <<"C", "AT_CAPTURE", "frames", "W", "measure", "H">>

AtCall(site) ==
    /\ InCall(site)
    /\ crop = NoCrop
    /\ sent = NothingSent

InitWait == \E site \in WaitSites : AtCall(site)

WaitReadLine(site) ==
    \E i \in 0..NumLines, d \in 0..SERIAL_TIMEOUT :
        /\ WaitTurn(site, i, d)
        /\ rx' = i
        /\ UNCHANGED <<answered, crop, sent>>

NextWait ==
    \/ WaitReadLine("wait_zero")
    \/ WaitTimeout("wait_zero")
    \/ WaitReadLine("wait_capture")
    \/ WaitTimeout("wait_capture")
    \/ WaitReadLine("wait_home")
    \/ WaitTimeout("wait_home")

SpecWait == InitWait /\ [][NextWait]_vars

InitMeasure == AtCall("measure")

MeasureReadLine ==
    \E i \in 0..NumLines, d \in 0..SERIAL_TIMEOUT :
        /\ MeasureTurn(i, d)
        /\ rx' = i
        /\ UNCHANGED <<answered, crop, sent>>

NextMeasure ==
    \/ MeasureReadLine
    \/ MeasureTimeout

SpecMeasure == InitMeasure /\ [][NextMeasure]_vars

\* -------------------------------------------------------------------------
\* read_measurement on one MEASURED line put together from three numbers and
\* three unit suffixes, followed by WEIGH_DONE.  Each number is written with
\* its value as the wire protocol reads it.

NumberTexts == <<
    [text |-> <<"1", "2", ".", "3">>, val |-> Num(FALSE, 12, <<"3">>)],
    [text |-> <<"-", "0", ".", "5">>, val |-> Num(TRUE, 0, <<"5">>)],
    [text |-> <<"7">>,                val |-> Num(FALSE, 7, <<>>)]
>>

Suffixes == {<<>>, <<"g">>, <<"%">>, <<"k", "g">>, <<"m", "2">>, <<"C", ".">>,
             <<"-">>}

MeasuredLine(a, sa, b, sb, c, sc) ==
    MEASURED \o <<" ">> \o KeyW \o a \o sa \o <<" ">> \o KeyT \o b \o sb
             \o <<" ">> \o KeyH \o c \o sc \o <<"\r", "\n">>

InitSuffix ==
    /\ InCall("measure")
    /\ crop = NoCrop
    /\ \E a \in 1..Len(NumberTexts), b \in 1..Len(NumberTexts),
          c \in 1..Len(NumberTexts), sa \in Suffixes, sb \in Suffixes,
          sc \in Suffixes :
          sent = [stage |-> "sent", a |-> a, sa |-> sa, b |-> b, sb |-> sb,
                  c |-> c, sc |-> sc]

\* the turn of the loop that reads the MEASURED line
MeasureSentLine ==
    /\ pc = "measure"
    /\ sent.stage = "sent"
    /\ ~TimedOut(elapsed, MEASURE_TIMEOUT)
    /\ LET bytes == MeasuredLine(NumberTexts[sent.a].text, sent.sa,
                                 NumberTexts[sent.b].text, sent.sb,
                                 NumberTexts[sent.c].text, sent.sc)
           text  == Strip(Decode(bytes))
       IN  fields' = ParseLine(fields, text)
    /\ \E d \in 0..SERIAL_TIMEOUT : elapsed' = elapsed + d
    /\ sent' = [sent EXCEPT !.stage = "read"]
    /\ UNCHANGED <<pc, got_done, steps, heard, serialVars, written, cap_open, ok,
                   raw_path, enh_path, frames, sample_idx, csv, cycles, acked,
                   rx, answered, crop>>

\* the turn that reads WEIGH_DONE
MeasureSentDone ==
    /\ sent.stage = "read"
    /\ \E d \in 0..SERIAL_TIMEOUT : MeasureTurn(5, d)
    /\ sent' = [sent EXCEPT !.stage = "done"]
    /\ UNCHANGED <<rx, answered, crop>>

NextSuffix ==
    \/ MeasureSentLine
    \/ MeasureSentDone

SpecSuffix == InitSuffix /\ [][NextSuffix]_vars

\* =========================================================================
\* Properties
\* =========================================================================
IsPrefix(a, b) == Len(a) <= Len(b) /\ a = SubSeq(b, 1, Len(a))

LastOf(q, n) == SubSeq(q, Len(q) - n + 1, Len(q))

Count(q, x) == Cardinality({k \in 1..Len(q) : q[k] = x})

FullCycle == <<"C", "AT_CAPTURE", "frames", "W", "measure", "H", "wait AT_HOME", "record">>

AbortedCycle == <<"C", "no AT_CAPTURE">>

Acknowledged == Len(steps) >= 2 /\ steps[2] = "AT_CAPTURE"

Aborted == Len(steps) >= 2 /\ steps[2] = "no AT_CAPTURE"

\* C1: in a loop iteration whose AT_CAPTURE arrived in time the steps are, in
\* this order and once each: write C, receive AT_CAPTURE, read the frames,
\* write W, read the measurement, write H, wait for AT_HOME, append one
\* row; the iteration is back at the prompt only with all of them done, and
\* the next iteration starts only from an iteration that is finished.
C1_CycleStepsInOrder ==
    [][/\ Acknowledged' =>
            /\ IsPrefix(steps', FullCycle)
            /\ pc' \in {"prompt", "done"} =>
                /\ steps' = FullCycle
                /\ frames' = WARMUP_FRAMES + 1
                /\ LastOf(written', 3) = <<"C", "W", "H">>
                /\ csv'[Len(csv')].sample_idx = sample_idx' - 1
                /\ Count(csv', csv'[Len(csv')]) = 1
       /\ (steps' = <<"C">> /\ steps # <<"C">>) =>
            /\ pc = "prompt"
            /\ steps \in {<<>>, FullCycle, AbortedCycle}
      ]_vars

C1_Witness ==
    /\ pc = "prompt"
    /\ cycles = 2
    /\ steps = FullCycle
    /\ Len(csv) = 2

\* C2: when the wait for AT_CAPTURE times out the iteration is over: no
\* frame is read, neither W nor H is written, no row is appended, and the
\* program is back at the operator prompt.
C2_TimeoutAbortsCycle ==
    Aborted =>
        /\ pc \in {"prompt", "done"}
        /\ steps = AbortedCycle
        /\ frames = 0
        /\ written[Len(written)] = "C"
        /\ \A k \in 1..Len(csv) : csv[k].sample_idx # sample_idx
        /\ ok = FALSE

C2_Witness ==
    /\ pc = "prompt"
    /\ Aborted
    /\ cycles = 2
    /\ Len(csv) = 1

\* C3 as stated: after the wait for AT_CAPTURE timed out, W has been written
\* and the measurement read has run by the time the prompt is shown again.
C3_WeighAfterTimeout ==
    (pc = "prompt" /\ Aborted) =>
        /\ \E k \in 1..Len(steps) : steps[k] = "W"
        /\ \E k \in 1..Len(steps) : steps[k] = "measure"

\* C3 amended: when the timeout of the wait for AT_CAPTURE has passed, the
\* wait returns False and main goes straight back to the prompt; W is not
\* written and the measurement read does not run.
C3_NoWeighAfterTimeout ==
    [][(pc = "wait_capture" /\ elapsed > ACK_TIMEOUT) =>
            /\ ok' = FALSE
            /\ pc' = "prompt"
            /\ written' = written
            /\ steps' = Append(steps, "no AT_CAPTURE")
            /\ UNCHANGED <<fields, got_done, heard, csv, sample_idx>>
      ]_vars

C3_Witness ==
    /\ pc = "prompt"
    /\ Aborted
    /\ Count(written, "W") = 0
    /\ Count(written, "C") = 1

\* C4 as stated: at every prompt the sample index is 1 plus the number of
\* iterations the operator has started.
C4_IndexCountsEveryIteration == pc = "prompt" => sample_idx = 1 + cycles

\* C4 amended: the index starts at 1, never decreases and grows by one at a
\* time; at every prompt it is 1 plus the number of iterations whose
\* AT_CAPTURE arrived in time, whatever happened later in them; an
\* iteration whose wait for AT_CAPTURE timed out leaves it as it was.
C4_IndexCountsAcknowledged ==
    [][/\ pc' = "prompt" => sample_idx' = 1 + acked'
       /\ sample_idx' >= sample_idx
       /\ sample_idx' <= sample_idx + 1
       /\ (pc = "wait_capture" /\ pc' = "prompt") => sample_idx' = sample_idx
      ]_vars

C4_Witness ==
    /\ pc = "prompt"
    /\ cycles = 2
    /\ acked = 1
    /\ sample_idx = 2
    /\ Aborted

\* C5: Z is written once, as the first byte of the run, before the first
\* prompt; the wait for ZERO_DONE leads on to the camera and the loop
\* whether it timed out or not.
C5_TareOnceThenLoop ==
    [][/\ Count(written', "Z") <= 1
       /\ written' # <<>> => written'[1] = "Z"
       /\ pc' \in {"wait_zero", "init_camera", "prompt"} => Count(written', "Z") = 1
       /\ pc = "wait_zero" => pc' \in {"wait_zero", "init_camera"}
       /\ (pc = "init_camera" /\ cap_open') => pc' = "prompt"
      ]_vars

C5_Witness ==
    /\ pc = "wait_capture"
    /\ cycles = 1
    /\ ok = FALSE
    /\ written = <<"Z", "C">>

\* C6: wait_for_arduino returns True exactly when a turn whose timeout check
\* passed reads the expected token (blanks around it stripped); it returns
\* False only from a turn whose timeout check failed, which reads nothing;
\* any other line, empty, another token, MEASURED, WEIGH_DONE or free text,
\* leaves the wait going with nothing but the clock changed.
C6_AckOnlyOnExpectedToken ==
    [][\A site \in WaitSites :
        pc = site =>
            /\ (pc' # site /\ ok') =>
                    /\ TokenOf(rx') = ExpectedToken(site)
                    /\ elapsed <= Timeout(site)
            /\ (pc' # site /\ ~ok') =>
                    /\ elapsed > Timeout(site)
                    /\ rx' = rx
            /\ pc' = site =>
                    /\ TokenOf(rx') # ExpectedToken(site)
                    /\ elapsed <= Timeout(site)
                    /\ UNCHANGED <<ok, written, steps, csv, fields, sample_idx>>
      ]_vars

C6_Witness ==
    /\ pc = "log"
    /\ ok = TRUE
    /\ WireLines[rx] # AT_HOME
    /\ TokenOf(rx) = "AT_HOME"

\* C7: when WEIGH_DONE ends the read, weight, temperature and humidity are
\* each the value of the last MEASURED fragment for that key that carried a
\* number, absent if none did; a line that is neither MEASURED nor
\* WEIGH_DONE changes no field and does not end the read.
C7_LastParsedValueWins ==
    [][pc = "measure" =>
        /\ (pc' = "home" /\ got_done') =>
                /\ fields' = heard'
                /\ TokenOf(rx') = "WEIGH_DONE"
        /\ (elapsed <= MEASURE_TIMEOUT /\ TokenOf(rx') \notin {"MEASURED", "WEIGH_DONE"}) =>
                /\ fields' = fields
                /\ pc' = "measure"
      ]_vars

C7_Witness ==
    /\ pc = "home"
    /\ got_done
    /\ fields = [weight |-> Num(FALSE, 12, <<"3">>), temp_c |-> Num(FALSE, 25, <<>>),
                 hum_pct |-> Num(FALSE, 41, <<>>)]

\* the MEASURED lines none of whose fragments carries a number
Garbled == {i \in 1..NumLines :
              /\ LineMeaning[i].tok = "MEASURED"
              /\ Hear(NoFields, i) = NoFields}

\* C8: a MEASURED line whose fragments yield no number (W=abc, T=1.2.3C,
\* H=-%) changes no field, absent or already parsed, and the read goes on.
C8_GarbledFragmentChangesNothing ==
    [][(pc = "measure" /\ elapsed <= MEASURE_TIMEOUT /\ rx' \in Garbled) =>
            /\ fields' = fields
            /\ pc' = "measure"
            /\ got_done' = got_done
      ]_vars

C8_Witness ==
    /\ pc = "measure"
    /\ rx \in Garbled
    /\ fields.weight = Num(FALSE, 12, <<"3">>)
    /\ fields.hum_pct = Num(FALSE, 41, <<>>)

\* C9: when the read ends without WEIGH_DONE it returns None for weight,
\* temperature and humidity, whatever the lines read carried.
C9_TimeoutReturnsAllAbsent ==
    (pc \in {"home", "wait_home", "log"} /\ ~got_done) => fields = NoFields

C9_Witness ==
    /\ pc = "home"
    /\ ~got_done
    /\ heard.weight # None
    /\ heard.hum_pct # None

\* C10: a read that ends without WEIGH_DONE ends not before the timeout has
\* passed and not later than the timeout plus one serial read timeout: no
\* turn starts more than that after the call, and the turn that returns
\* finds at least the timeout elapsed.
C10_ReturnsAtTimeoutBoundary ==
    [][/\ pc' = "measure" => elapsed' <= MEASURE_TIMEOUT + SERIAL_TIMEOUT
       /\ (pc = "measure" /\ pc' = "home" /\ ~got_done') =>
            /\ elapsed >= MEASURE_TIMEOUT
            /\ elapsed <= MEASURE_TIMEOUT + SERIAL_TIMEOUT
       /\ (pc = "measure" /\ elapsed > MEASURE_TIMEOUT) => pc' = "home"
      ]_vars

C10_Witness ==
    /\ pc = "measure"
    /\ elapsed = MEASURE_TIMEOUT + SERIAL_TIMEOUT
    /\ heard = NoFields

\* C11: whatever lines the device sends or withholds, the wait for ZERO_DONE
\* ends, and a cycle the operator started (from the write of 'C' to the
\* record) always reaches the next operator prompt; the loop of prompts and
\* cycles is left for the end of the process only from the prompt, by the
\* operator's quit.
InCycle == pc \in {"wait_capture", "capture", "weigh", "measure", "home",
                   "wait_home", "log"}

AfterAck == pc \in {"capture", "weigh", "measure", "home", "wait_home", "log"}

C12_AcknowledgedCycleRecorded ==
    [][ /\ (pc = "capture") => (pc' = "weigh" /\ (raw_path' = <<>> <=> enh_path' = <<>>))
        /\ (pc = "weigh") =>
              (written' = Append(written, "W") /\ pc' = "measure" /\
               raw_path' = raw_path /\ enh_path' = enh_path)
        /\ (pc = "measure" /\ pc' # pc) =>
              (pc' = "home" /\ (~got_done' => fields' = NoFields))
        /\ (pc = "home") => (written' = Append(written, "H") /\ pc' = "wait_home")
        /\ (pc = "wait_home" /\ pc' # pc) => pc' = "log"
        /\ (pc = "log") =>
              (pc' = "prompt" /\
               csv' = Append(csv, [sample_idx |-> sample_idx,
                                   raw_path |-> raw_path, enh_path |-> enh_path,
                                   weight_g |-> fields.weight,
                                   temp_c |-> fields.temp_c,
                                   humidity_pct |-> fields.hum_pct]))
        /\ (AfterAck' => Len(csv') = acked' - 1)
        /\ (~AfterAck' => Len(csv') = acked')
        /\ (AfterAck => pc' # "done")
      ]_vars

\* the frame read failed, the measurement and the wait for AT_HOME timed
\* out, and the record is there with every field but the index empty
C12_Witness ==
    /\ pc = "prompt"
    /\ steps = FullCycle
    /\ ~ok
    /\ written = <<"Z", "C", "W", "H">>
    /\ csv = <<[sample_idx |-> 1, raw_path |-> <<>>, enh_path |-> <<>>,
                weight_g |-> None, temp_c |-> None, humidity_pct |-> None]>>

\* C19: at every operator prompt the records appended so far number
\* sample_idx - 1 and carry the indexes 1, 2, 3, ... in order.
C19_RecordsFollowIndex ==
    (pc = "prompt") =>
        /\ Len(csv) = sample_idx - 1
        /\ \A k \in 1..Len(csv) : csv[k].sample_idx = k

\* the prompt after two recorded cycles
C19_Witness ==
    /\ pc = "prompt"
    /\ sample_idx = 3
    /\ Len(csv) = 2
    /\ csv[2].sample_idx = 2

\* C13: when the process has ended, by the operator's quit, by the camera
\* failing to open or by a serial I/O error during the tare or in a cycle,
\* the serial link that was opened has been closed, once.
Ended == pc \in {"done", "crashed"}

C13_SerialClosedOnce == Ended => (~ser_open /\ ser_closes = 1)

\* C14: the host writes a command byte only when no command written before
\* is outstanding, that is, when the device has sent the terminating token
\* of every command byte written so far; this also after a wait of the host
\* has timed out.
C14_OneExchangeOutstanding ==
    [][(written' # written) => (\A c \in Commands : Outstanding(c) = 0)]_vars

\* C18: when a wait returns true, the token it accepted is the device's
\* answer to the command byte written just before the wait: the device has
\* then sent as many tokens of this kind as the host has written bytes of
\* this command, so the token is not the late answer to an earlier byte.
C18_AckAnswersLastCommand ==
    [][\A site \in WaitSites :
          (pc = site /\ pc' # site /\ ok') =>
              (answered'[CommandOf(site)] = WrittenTimes(CommandOf(site)))]_vars

\* C15: with cropping enabled, a rectangle that shares no pixel with the
\* frame gives back the whole frame, and any other rectangle gives back
\* exactly the pixels the rectangle and the frame share.
RectColumns(cfg) == {c \in (0 - 2 * MaxFrame)..(2 * MaxFrame + 2) :
                        cfg.CROP_X <= c /\ c < cfg.CROP_X + cfg.CROP_W}

RectRows(cfg) == {r \in (0 - 2 * MaxFrame)..(2 * MaxFrame + 2) :
                     cfg.CROP_Y <= r /\ r < cfg.CROP_Y + cfg.CROP_H}

SharedColumns(img, cfg) == RectColumns(cfg) \cap 0..(img.w - 1)

SharedRows(img, cfg) == RectRows(cfg) \cap 0..(img.h - 1)

C15_CropIsIntersection ==
    (crop.stage = "returned" /\ crop.cfg.ENABLE_CROP) =>
        LET cols == SharedColumns(crop.img, crop.cfg)
            rows == SharedRows(crop.img, crop.cfg)
            out  == crop.out
        IN  IF cols = {} \/ rows = {}
            THEN out = WholeFrame(crop.img)
            ELSE /\ out.x..(out.x2 - 1) = cols
                 /\ out.y..(out.y2 - 1) = rows

\* C16: a MEASURED line with three valid numbers, each followed by a unit
\* suffix, and then WEIGH_DONE: the read returns the three numbers,
\* whatever characters the suffixes are made of.
SentValues == [weight  |-> NumberTexts[sent.a].val,
               temp_c  |-> NumberTexts[sent.b].val,
               hum_pct |-> NumberTexts[sent.c].val]

Returned == sent.stage = "done" /\ pc = "home" /\ got_done

C16_AnySuffixIgnored == Returned => fields = SentValues

\* C16, amended: the same for suffixes that hold no digit, no "." and no "-".
PlainSuffix(sx) == \A k \in 1..Len(sx) : sx[k] \notin {"0", "1", "2", "3", "4",
                                                          "5", "6", "7", "8", "9",
                                                          ".", "-"}

C16_PlainSuffixIgnored ==
    (Returned /\ PlainSuffix(sent.sa) /\ PlainSuffix(sent.sb) /\ PlainSuffix(sent.sc))
        => fields = SentValues

\* 12.3kg, -0.5 with no suffix and 7% were sent and returned
C16_Witness ==
    /\ Returned
    /\ sent.a = 1 /\ sent.sa = <<"k", "g">>
    /\ sent.b = 2 /\ sent.sb = <<>>
    /\ sent.c = 3 /\ sent.sc = <<"%">>
    /\ fields = [weight |-> Num(FALSE, 12, <<"3">>), temp_c |-> Num(TRUE, 0, <<"5">>),
                 hum_pct |-> Num(FALSE, 7, <<>>)]

\* C17: a command byte is written only after the port was opened, the settle
\* delay is over and the drain has read and discarded every line sent during
\* the delay; the drain discards them one by one and loses none, so while
\* the wait for ZERO_DONE runs none of them is left to be read.
C17_DrainBeforeFirstCommand ==
    [][ /\ (written' # written) =>
              (ser_open /\ pc \notin {"start", "drain"} /\ in_waiting = 0)
        /\ (pc = "drain") => (in_waiting' + flushed' = in_waiting + flushed)
        /\ (pc' = "wait_zero") => in_waiting' = 0
      ]_vars

\* two lines were sent during the settle delay, the drain discarded both,
\* 'Z' is written and the wait for ZERO_DONE runs
C17_Witness ==
    /\ pc = "wait_zero"
    /\ written = <<"Z">>
    /\ flushed = 2
    /\ in_waiting = 0

====
